---- MODULE Spec2Model ----
(***************************************************************************)
(* KLTTrackerCpp: the ImageAlignment tracker (Baker-Matthews inverse       *)
(* compositional alignment) as a state machine.                            *)
(*                                                                         *)
(* The repository holds several revisions of ImageAlignment.cpp.  Two of   *)
(* them carry a complete track():                                          *)
(*   "part_000"       src/unnamed/part_000   (header + latest source)      *)
(*   "ImageAlignment" src/ImageAlignment.cpp (debugging revision)          *)
(* The variable rev fixes which of the two is the build under analysis; it *)
(* never changes within a behaviour.                                       *)
(*                                                                         *)
(* Numbers.  BBOX coordinates are 32-bit floats in the code; here they are *)
(* integers counting 1/Scale pixel, so that non-integer widths occur.  A   *)
(* value poisoned by a failed solve (NaN/inf) is carried by the nan flag   *)
(* of the record that holds it.                                            *)
(*                                                                         *)
(* Library primitives (OpenCV warp / getRectSubPix / Sobel, Eigen solve)   *)
(* are not computed pixel by pixel.  What the code does with their result  *)
(* is modelled exactly; the result itself is drawn from every outcome the  *)
(* primitive can produce on the class of its input (SolveOutcomes).        *)
(***************************************************************************)
EXTENDS Integers, Sequences, FiniteSets, TLC

VARIABLES
    rev,            \* which revision of the source is built
    self,           \* the object: [mBbox, mTemplateImage, mCurrentImage]
    pc,             \* "idle" | "pre" | "loop" | "post" | "aborted"
    call,           \* the public call in progress / last made, with its arguments
    entry,          \* what the getters returned when track was entered
    templateImage,  \* track's local handle on the previous frame
    i,              \* track's loop counter (iterations completed)
    warpMat,        \* track's running warp estimate
    deltaP,         \* the update solved in the last iteration
    stage,          \* last step of track reached: none, warp, residual, test, post
    jac,            \* the Jacobian: rows allocated, rows written by the builder
    outcome,        \* how the last call ended
    nTracks,        \* number of track calls made so far
    sample          \* a call of the sampler getSubPixelValue: arguments and result

vars == <<rev, self, pc, call, entry, templateImage, i, warpMat, deltaP,
          stage, jac, outcome, nTracks, sample>>

----------------------------------------------------------------------------
(* Bounds *)

\* sub-pixel resolution: one coordinate unit is 1/Scale pixel
Scale == 2
\* largest iteration cap aMaxIters a caller passes
MaxIters == 2
\* number of track calls in one behaviour
MaxTracks == 2

\* thresholds are counted in 1/TauDen; the default 0.01875 is 3/160
TauDen == 160

----------------------------------------------------------------------------
(* Values *)

Revisions == {"part_000", "ImageAlignment"}

\* "none" is the default-constructed cv::Mat; "f0","f1" are textured
\* single-channel frames; "flat" is a uniform single-channel frame (its Sobel
\* gradients are zero everywhere); "rgb" is a three-channel frame.
Images == {"none", "f0", "f1", "flat", "rgb"}
Frames == Images

IsEmpty(img) == img = "none"
Channels(img) == IF img = "rgb" THEN 3 ELSE 1
Textured(img) == img \in {"f0", "f1"}

FiniteBox(c) == [nan |-> FALSE, c |-> c]
NaNBox == [nan |-> TRUE, c |-> <<>>]

\* 3 + 1/Scale wide, 4 + 1/Scale high: non-integer width and height
BoxA == <<4 * Scale, 4 * Scale, 7 * Scale + 1, 8 * Scale + 1>>
\* set_bbox(50, 50, 50, 70): zero width
BoxDegenerate == <<50 * Scale, 50 * Scale, 50 * Scale, 70 * Scale>>
\* inverted: x1 < x0
BoxInverted == <<7 * Scale, 4 * Scale, 4 * Scale, 8 * Scale>>

BBoxInputs == {BoxA, BoxDegenerate, BoxInverted}

\* thresholds a caller passes, in 1/TauDen: 0, the default 0.01875, and 2.0
Thresholds == {0, 3, 2 * TauDen}

I3 == <<<<1, 0, 0>>, <<0, 1, 0>>, <<0, 0, 1>>>>
FiniteMat(m) == [nan |-> FALSE, m |-> m]
NaNMat == [nan |-> TRUE, m |-> <<>>]

FiniteDelta(p) == [nan |-> FALSE, p |-> p]
NaNDelta == [nan |-> TRUE, p |-> <<>>]
ZeroDelta == <<0, 0, 0, 0, 0, 0>>

\* The finite updates a solve returns in the model: the zero update, a
\* one-pixel translation in x (norm 1), and a unit shear with a two-pixel
\* translation in y (norm sqrt 5).  Their matrices M(deltaP) have determinant
\* 1, so M^-1 is exact over the integers.
DeltaPs == {ZeroDelta,
            <<0, 0, 0, 0, 1, 0>>,
            <<0, 0, 1, 0, 0, -2>>}

NoCall == [op |-> "ctor", bbox |-> <<>>, img |-> "none", tau |-> 0, K |-> 0]
NoEntry == [mBbox |-> NaNBox, tmpl |-> "none", cur |-> "none"]
\* What track computes once per call, before its loop.  The Jacobian is kept
\* as its row count, the rows written, and the two values its contents and the
\* template patch are computed from: the template frame (img) and the BBOX
\* coordinates (c) read at line 415.  JacobianTransposed is its transpose.
NoPatch == [img |-> "none", c |-> <<>>, size |-> [cols |-> 0, rows |-> 0]]
NoJac == [rows |-> 0, written |-> <<>>, img |-> "none", c |-> <<>>]
\* no sampler call is being observed
NoSample == [pc |-> "off"]
NoLocal == [alias |-> FALSE, img |-> "none"]

----------------------------------------------------------------------------
(* The object's accessors.  setBBOX / getBBOX are the same in both         *)
(* revisions; the image accessors differ.                                  *)

getBBOX(o) == o.mBbox

\* for (int i = 0; i < 4; i++) mBbox[i] = aBbox[i];
setBBOX(o, aBbox) ==
    [o EXCEPT !.mBbox = FiniteBox([k \in 1..4 |-> aBbox[k]])]

\* the four scalars stored in (left, top, right, bottom) order although they
\* are passed as (top, left, bottom, right)
setBBOX4_swapped(o, aTop, aLeft, aBottom, aRight) ==
    [o EXCEPT !.mBbox = FiniteBox(<<aLeft, aTop, aRight, aBottom>>)]

\* mBbox[0] = aTop; mBbox[1] = aLeft; mBbox[2] = aBottom; mBbox[3] = aRight;
setBBOX4(o, aTop, aLeft, aBottom, aRight) ==
    [o EXCEPT !.mBbox = FiniteBox(<<aTop, aLeft, aBottom, aRight>>)]

getTemplateImage(o) == o.mTemplateImage

setTemplateImage(o, aImg) == [o EXCEPT !.mTemplateImage = aImg]

\* part_000: return mCurrentImage;
getCurrentImage_p0(o) == o.mCurrentImage
\* ImageAlignment.cpp: return mTemplateImage;
getCurrentImage_ia(o) == o.mTemplateImage

getCurrentImage(o) ==
    IF rev = "part_000" THEN getCurrentImage_p0(o) ELSE getCurrentImage_ia(o)

\* part_000: mCurrentImage = aImg;
setCurrentImage_p0(o, aImg) == [o EXCEPT !.mCurrentImage = aImg]
\* ImageAlignment.cpp: mTemplateImage = aImg;
setCurrentImage_ia(o, aImg) == [o EXCEPT !.mTemplateImage = aImg]

setCurrentImage(o, aImg) ==
    IF rev = "part_000" THEN setCurrentImage_p0(o, aImg)
                        ELSE setCurrentImage_ia(o, aImg)

\* the default-constructed object: both images empty, mBbox not initialised
Blank(box) == [mBbox |-> box, mTemplateImage |-> "none", mCurrentImage |-> "none"]

\* values an uninitialised float[4] is read as
UninitBoxes == {NaNBox, FiniteBox(<<0, 0, 0, 0>>)}

init_image(o, aImage) == setCurrentImage(o, aImage)
init_bbox(o, aBbox) == setBBOX(o, aBbox)
init_image_bbox(o, aImage, aBbox) == setBBOX(setCurrentImage(o, aImage), aBbox)

----------------------------------------------------------------------------
(* Arithmetic of track *)

Width(c) == c[3] - c[1]
Height(c) == c[4] - c[2]

\* int(x) and static_cast<size_t>(x) of a non-negative float: truncation.
\* x counts 1/Scale pixel, the result counts whole pixels.
TruncPx(x) == IF x >= 0 THEN x \div Scale ELSE -((-x) \div Scale)

\* cv::Size(cv::Size2d): a patch extent of at most half a pixel rounds to 0
PatchEmpty(x) == 2 * x <= Scale

\* part_000: N_PIXELS = size_t(bboxSize.width) * size_t(bboxSize.height)
NPixels_p0(c) == TruncPx(Width(c)) * TruncPx(Height(c))
\* ImageAlignment.cpp: N_PIXELS = size_t(bboxSize.width * bboxSize.height)
NPixels_ia(c) == (Width(c) * Height(c)) \div (Scale * Scale)

\* computeJacobian's loops: for i < nY, for j < nX, one visit each, total++.
\* The t-th visit has total = t-1, i = (t-1) div nX, j = (t-1) mod nX.
GridVisits(c) ==
    LET nX == TruncPx(Width(c))
        nY == TruncPx(Height(c))
        n  == IF nX > 0 /\ nY > 0 THEN nX * nY ELSE 0
    IN [t \in 1..n |-> [total |-> t - 1, i |-> (t - 1) \div nX, j |-> (t - 1) % nX]]

\* part_000: aJacobian.row(total) << delI * dWdp;  in every visit
RowsWritten_p0(c) ==
    LET visits == GridVisits(c)
    IN  [t \in 1..Len(visits) |-> visits[t].total]
\* ImageAlignment.cpp: the row assignment is commented out; rows are printed
RowsWritten_ia(c) == <<>>

\* The sample point of grid index (i, j), as a pair of fractions of 1/Scale
\* pixel: x = xn/xd, y = yn/yd.  A denominator of 0 is a division by zero.
\* part_000 lines 351-357:
\*     deltaX = bboxWidth / (nX - 1);  x = bbox[0] + deltaX * j;
\*     deltaY = bboxHeight / (nY - 1); y = bbox[1] + deltaY * i;
GridPoint_p0(c, i0, j0) ==
    LET nX == TruncPx(Width(c))
        nY == TruncPx(Height(c))
    IN  [xn |-> c[1] * (nX - 1) + j0 * Width(c),  xd |-> nX - 1,
         yn |-> c[2] * (nY - 1) + i0 * Height(c), yd |-> nY - 1]
\* ImageAlignment.cpp lines 198-206:
\*     deltaX = bboxWidth / nX;  deltaY = bboxHeight / nY;
GridPoint_ia(c, i0, j0) ==
    LET nX == TruncPx(Width(c))
        nY == TruncPx(Height(c))
    IN  [xn |-> c[1] * nX + j0 * Width(c),  xd |-> nX,
         yn |-> c[2] * nY + i0 * Height(c), yd |-> nY]

\* the points computeJacobian visits, in the order of its loops
GridPoints_p0(c) ==
    LET visits == GridVisits(c)
    IN  [t \in 1..Len(visits) |-> GridPoint_p0(c, visits[t].i, visits[t].j)]
GridPoints_ia(c) ==
    LET visits == GridVisits(c)
    IN  [t \in 1..Len(visits) |-> GridPoint_ia(c, visits[t].i, visits[t].j)]

\* cv::Sobel(templateImage, gradX, CV_64F, 1, 0) read at a sample point by
\* getSubPixelValue: a flat image has gradient 0 everywhere, a textured image
\* a gradient that varies with the point; the two derivatives differ.
templateGradX(img, pt) == IF Textured(img) THEN 1 + (pt.xn % 3) ELSE 0
templateGradY(img, pt) == IF Textured(img) THEN 4 + (pt.yn % 3) ELSE 0

\* dWdp << x, 0, y, 0, 1, 0,
\*         0, x, 0, y, 0, 1;      with every entry in units of 1/(xd*yd)
dWdp(pt) ==
    << <<pt.xn * pt.yd, 0, pt.yn * pt.xd, 0, pt.xd * pt.yd, 0>>,
       <<0, pt.xn * pt.yd, 0, pt.yn * pt.xd, 0, pt.xd * pt.yd>> >>

\* delI << delIx, delIy;   the row is the 1x2 by 2x6 product delI * dWdp
JacobianRow(img, pt) ==
    LET delI == <<templateGradX(img, pt), templateGradY(img, pt)>>
        dW   == dWdp(pt)
    IN  [den |-> pt.xd * pt.yd,
         v   |-> [n \in 1..6 |-> delI[1] * dW[1][n] + delI[2] * dW[2][n]]]

\* part_000: the row of every visit is stored, in the order of the visits
RowValues_p0(img, c) ==
    LET points == GridPoints_p0(c)
    IN  [t \in 1..Len(points) |-> JacobianRow(img, points[t])]
\* ImageAlignment.cpp: the products are printed and none is stored
RowValues_ia(img, c) == <<>>

\* cvRound, as cv::Size(cv::Size2d) applies it: nearest integer, ties to even
CvRound(x) ==
    LET q == x \div Scale
        r == x % Scale
    IN  IF 2 * r < Scale THEN q
        ELSE IF 2 * r > Scale THEN q + 1
        ELSE IF q % 2 = 0 THEN q ELSE q + 1

\* templateSubImage: cv::getRectSubPix(templateImageFloat, bboxSize,
\* bboxCenter, templateSubImage, CV_32FC1), the patch of the template frame
\* over the BBOX read at line 415
TemplatePatch(img, c) ==
    [img |-> img, c |-> c,
     size |-> [cols |-> CvRound(Width(c)), rows |-> CvRound(Height(c))]]

\* the patch cv::getRectSubPix(image, bboxSize, bboxCenter, patch) returns:
\* cols x rows = cvRound(W) x cvRound(H)
PatchSize(c) == [cols |-> CvRound(Width(c)), rows |-> CvRound(Height(c))]

\* errorVector after cv::cv2eigen(errorImage, errorVector) and
\* errorVector.resize(N_PIXELS, 1).  A MatrixXd is stored column by column:
\* when the patch has N_PIXELS entries, resize keeps the storage and entry k
\* is patch entry (k mod rows, k div rows); otherwise resize reallocates and
\* the entries are uninitialised.
ErrorVector(c) ==
    LET ps == PatchSize(c)
        n  == NPixels_p0(c)
    IN  [t \in 1..n |->
            IF ps.cols * ps.rows = n
            THEN [init |-> TRUE, i |-> (t - 1) % ps.rows, j |-> (t - 1) \div ps.rows]
            ELSE [init |-> FALSE, i |-> 0, j |-> 0]]

\* every entry of errorVector holds a value the code computed
ErrorDefined(c) == \A t \in 1..Len(ErrorVector(c)) : ErrorVector(c)[t].init

MatMul(a, b) ==
    [r \in 1..3 |-> [k \in 1..3 |->
        a[r][1] * b[1][k] + a[r][2] * b[2][k] + a[r][3] * b[3][k]]]

Det3(m) ==
      m[1][1] * (m[2][2] * m[3][3] - m[2][3] * m[3][2])
    - m[1][2] * (m[2][1] * m[3][3] - m[2][3] * m[3][1])
    + m[1][3] * (m[2][1] * m[3][2] - m[2][2] * m[3][1])

\* adjugate (transposed cofactors)
Adj3(m) ==
    <<<<m[2][2] * m[3][3] - m[2][3] * m[3][2],
        m[1][3] * m[3][2] - m[1][2] * m[3][3],
        m[1][2] * m[2][3] - m[1][3] * m[2][2]>>,
      <<m[2][3] * m[3][1] - m[2][1] * m[3][3],
        m[1][1] * m[3][3] - m[1][3] * m[3][1],
        m[1][3] * m[2][1] - m[1][1] * m[2][3]>>,
      <<m[2][1] * m[3][2] - m[2][2] * m[3][1],
        m[1][2] * m[3][1] - m[1][1] * m[3][2],
        m[1][1] * m[2][2] - m[1][2] * m[2][1]>>>>

\* Eigen's Matrix3d::inverse(): adjugate / determinant; a zero determinant
\* gives inf/NaN entries.  Exact here because |det| = 1 for every DeltaPs.
Inverse3(m) ==
    IF Det3(m) = 0 THEN NaNMat
    ELSE FiniteMat([r \in 1..3 |-> [k \in 1..3 |-> Adj3(m)[r][k] \div Det3(m)]])

\* warpMatDelta << 1 + deltaP(0), deltaP(2), deltaP(4),
\*                 deltaP(1), 1 + deltaP(3), deltaP(5),  0, 0, 1;
WarpMatDelta(p) ==
    <<<<1 + p[1], p[3], p[5]>>, <<p[2], 1 + p[4], p[6]>>, <<0, 0, 1>>>>

\* the update composed without inverting it: warpMat *= warpMatDelta
Compose_noInverse(w, d) ==
    IF w.nan \/ d.nan THEN NaNMat
    ELSE FiniteMat(MatMul(w.m, WarpMatDelta(d.p)))

\* warpMat *= warpMatDelta.inverse();
Compose(w, d) ==
    IF w.nan \/ d.nan THEN NaNMat
    ELSE LET inv == Inverse3(WarpMatDelta(d.p))
         IN IF inv.nan THEN NaNMat ELSE FiniteMat(MatMul(w.m, inv.m))

NormSq(p) == p[1]*p[1] + p[2]*p[2] + p[3]*p[3] + p[4]*p[4] + p[5]*p[5] + p[6]*p[6]

\* deltaP.norm() < aThreshold ; a comparison with NaN is false.
\* aThreshold counts 1/TauDen and is never negative here.
Converged(d, aThreshold) ==
    /\ ~d.nan
    /\ NormSq(d.p) * TauDen * TauDen < aThreshold * aThreshold

\* the loop with an off-by-one bound: i <= aMaxIters
LoopHead_offByOne(n, aMaxIters) == IF n <= aMaxIters THEN "loop" ELSE "post"

\* for (size_t i = 0; i < aMaxIters; i++): where control goes from the loop head
LoopHead(n, aMaxIters) == IF n < aMaxIters THEN "loop" ELSE "post"

\* newBBOXHomo = warpMat * [[x0, x1], [y0, y1], [1, 1]];
\* setBBOX(new(0,0), new(1,0), new(0,1), new(1,1)).  The homogeneous 1 is
\* Scale in coordinate units.
\* the post-step storing the result row by row: setBBOX(new(0,0), new(0,1),
\* new(1,0), new(1,1))
WarpBBOX_rowOrder(o, w) ==
    IF w.nan \/ getBBOX(o).nan THEN [o EXCEPT !.mBbox = NaNBox]
    ELSE LET c == getBBOX(o).c
             new(r, x, y) == w.m[r][1] * x + w.m[r][2] * y + w.m[r][3] * Scale
         IN setBBOX4(o, new(1, c[1], c[2]), new(1, c[3], c[4]),
                        new(2, c[1], c[2]), new(2, c[3], c[4]))

WarpBBOX(o, w) ==
    IF w.nan \/ getBBOX(o).nan THEN [o EXCEPT !.mBbox = NaNBox]
    ELSE LET c == getBBOX(o).c
             new(r, x, y) == w.m[r][1] * x + w.m[r][2] * y + w.m[r][3] * Scale
         IN setBBOX4(o, new(1, c[1], c[2]), new(2, c[1], c[2]),
                        new(1, c[3], c[4]), new(2, c[3], c[4]))

----------------------------------------------------------------------------
(* What the library primitives do on each class of input *)

\* the image track's local handle designates now: a copy keeps the frame it
\* was taken from, a reference follows the slot it refers to
Deref(h, o) == IF h.alias THEN o.mTemplateImage ELSE h.img

\* part_000, lines 414-456.  cv::getRectSubPix / convertImageForDisplay
\* (cvtColor GRAY2RGB) / getSubPixelValue's asserts reject an empty or
\* multi-channel template and an empty patch: control leaves track by an
\* exception before the loop.
PreFault_p0(img, box) ==
    \/ IsEmpty(img)
    \/ Channels(img) # 1
    \/ box.nan
    \/ (~box.nan /\ (PatchEmpty(Width(box.c)) \/ PatchEmpty(Height(box.c))))

\* ImageAlignment.cpp, lines 260-297: an empty template or a patch of negative
\* extent is rejected by the library (no display helper is called here, so an
\* empty patch passes).
PreThrow_ia(img, box) ==
    \/ IsEmpty(img)
    \/ box.nan
    \/ (~box.nan /\ (Width(box.c) < 0 \/ Height(box.c) < 0))

\* ImageAlignment.cpp, getSubPixelValue: assert(aImg.channels() == 1), reached
\* when the builder's loop body runs at least once
PreAbort_ia(img, box) ==
    /\ ~PreThrow_ia(img, box)
    /\ Channels(img) # 1
    /\ Len(GridVisits(box.c)) > 0

\* part_000, lines 490 and 506: cv::warpPerspective rejects an empty source;
\* warpedSubImage - templateSubImage rejects a channel mismatch
IterFault(aNewImage) == IsEmpty(aNewImage) \/ Channels(aNewImage) # 1

\* J^T J is not invertible: zero gradients, or fewer than 6 rows
Singular(img, n) == ~Textured(img) \/ n < 6

\* deltaP = Hessian.inverse() * (J^T * e), line 529.
\*   singular Hessian: Eigen returns inf/NaN entries, no error is raised;
\*   e read from uninitialised storage: any update, NaN included;
\*   same frame under the identity warp: e = 0, so deltaP = 0;
\*   otherwise any finite update.
SolveOutcomes(tmpl, cur, w, n, c) ==
    IF Singular(tmpl, n) THEN {NaNDelta}
    ELSE IF ~ErrorDefined(c) THEN {FiniteDelta(p) : p \in DeltaPs} \cup {NaNDelta}
    ELSE IF cur = tmpl /\ w = FiniteMat(I3) THEN {FiniteDelta(ZeroDelta)}
    ELSE {FiniteDelta(p) : p \in DeltaPs}

----------------------------------------------------------------------------
(* Construction *)

Init ==
    /\ rev \in Revisions
    /\ \E box \in UninitBoxes, aImage \in Frames \ {"none"}, aBbox \in BBoxInputs :
          \/ /\ self = Blank(box)
             /\ call = NoCall
          \/ /\ self = init_image(Blank(box), aImage)
             /\ call = [NoCall EXCEPT !.img = aImage]
          \/ /\ self = init_bbox(Blank(box), aBbox)
             /\ call = [NoCall EXCEPT !.bbox = aBbox]
          \/ /\ self = init_image_bbox(Blank(box), aImage, aBbox)
             /\ call = [NoCall EXCEPT !.img = aImage, !.bbox = aBbox]
    /\ pc = "idle"
    /\ entry = NoEntry
    /\ templateImage = NoLocal
    /\ i = 0
    /\ warpMat = FiniteMat(I3)
    /\ deltaP = FiniteDelta(ZeroDelta)
    /\ stage = "none"
    /\ jac = NoJac
    /\ outcome = "returned"
    /\ nTracks = 0
    /\ sample = NoSample

\* a setter call: track's locals of an earlier call are gone
Locals0 ==
    /\ entry' = NoEntry
    /\ templateImage' = NoLocal
    /\ i' = 0
    /\ warpMat' = FiniteMat(I3)
    /\ deltaP' = FiniteDelta(ZeroDelta)
    /\ stage' = "none"
    /\ jac' = NoJac
    /\ outcome' = "returned"

----------------------------------------------------------------------------
(* The setters *)

SetBBOX(aBbox) ==
    /\ pc = "idle"
    /\ self' = setBBOX(self, aBbox)
    /\ call' = [NoCall EXCEPT !.op = "setBBOX", !.bbox = aBbox]
    /\ Locals0
    /\ UNCHANGED <<sample, rev, pc, nTracks>>

SetBBOX4(aBbox) ==
    /\ pc = "idle"
    /\ self' = setBBOX4(self, aBbox[1], aBbox[2], aBbox[3], aBbox[4])
    /\ call' = [NoCall EXCEPT !.op = "setBBOX4", !.bbox = aBbox]
    /\ Locals0
    /\ UNCHANGED <<sample, rev, pc, nTracks>>

SetTemplateImage(aImg) ==
    /\ pc = "idle"
    /\ self' = setTemplateImage(self, aImg)
    /\ call' = [NoCall EXCEPT !.op = "setTemplateImage", !.img = aImg]
    /\ Locals0
    /\ UNCHANGED <<sample, rev, pc, nTracks>>

SetCurrentImage(aImg) ==
    /\ pc = "idle"
    /\ self' = setCurrentImage(self, aImg)
    /\ call' = [NoCall EXCEPT !.op = "setCurrentImage", !.img = aImg]
    /\ Locals0
    /\ UNCHANGED <<sample, rev, pc, nTracks>>

----------------------------------------------------------------------------
(* track(aNewImage, aThreshold, aMaxIters) *)

\* part_000: const cv::Mat templateImage = getCurrentImage();   (a copy)
TrackHandle_p0(o) == [alias |-> FALSE, img |-> getCurrentImage_p0(o)]
\* ImageAlignment.cpp: const cv::Mat &templateImage = getCurrentImage();
\* a reference to the member getCurrentImage() returns, mTemplateImage
TrackHandle_ia(o) == [alias |-> TRUE, img |-> "none"]

TrackHandle(o) ==
    IF rev = "part_000" THEN TrackHandle_p0(o) ELSE TrackHandle_ia(o)

\* setTemplateImage(templateImage); setCurrentImage(currentImage);
PromoteFrames(o, h, aNewImage) ==
    setCurrentImage(setTemplateImage(o, Deref(h, o)), aNewImage)

\* lines 406-412 (part_000), 252-258 (ImageAlignment.cpp)
TrackBegin(aNewImage, aThreshold, aMaxIters) ==
    /\ pc = "idle"
    /\ nTracks < MaxTracks
    /\ nTracks' = nTracks + 1
    /\ call' = [op |-> "track", bbox |-> <<>>, img |-> aNewImage,
                tau |-> aThreshold, K |-> aMaxIters]
    /\ entry' = [mBbox |-> getBBOX(self), tmpl |-> getTemplateImage(self),
                 cur |-> getCurrentImage(self)]
    /\ templateImage' = TrackHandle(self)
    /\ self' = PromoteFrames(self, TrackHandle(self), aNewImage)
    /\ pc' = "pre"
    /\ i' = 0
    /\ warpMat' = FiniteMat(I3)
    /\ deltaP' = FiniteDelta(ZeroDelta)
    /\ stage' = "none"
    /\ jac' = NoJac
    /\ outcome' = "running"
    /\ UNCHANGED <<sample, rev>>

\* part_000 lines 414-464: template patch, N_PIXELS, Jacobian, warp = identity
TrackPre ==
    /\ pc = "pre"
    /\ rev = "part_000"
    /\ ~PreFault_p0(Deref(templateImage, self), getBBOX(self))
    /\ jac' = [rows |-> NPixels_p0(getBBOX(self).c),
               written |-> RowsWritten_p0(getBBOX(self).c),
               img |-> Deref(templateImage, self),
               c |-> getBBOX(self).c]
    /\ warpMat' = FiniteMat(I3)
    /\ i' = 0
    /\ pc' = LoopHead(0, call.K)
    /\ UNCHANGED <<sample, rev, self, call, entry, templateImage, deltaP, stage,
                   outcome, nTracks>>

\* ImageAlignment.cpp lines 260-298: the builder prints the rows, then
\*     return; // TODO: Remove this when not debugging
\* The loop and the BBOX update below that line are never reached.
TrackPreDebug ==
    /\ pc = "pre"
    /\ rev = "ImageAlignment"
    /\ ~PreThrow_ia(Deref(templateImage, self), getBBOX(self))
    /\ ~PreAbort_ia(Deref(templateImage, self), getBBOX(self))
    /\ jac' = [rows |-> NPixels_ia(getBBOX(self).c),
               written |-> RowsWritten_ia(getBBOX(self).c),
               img |-> Deref(templateImage, self),
               c |-> getBBOX(self).c]
    /\ pc' = "idle"
    /\ outcome' = "returned"
    /\ UNCHANGED <<sample, rev, self, call, entry, templateImage, i, warpMat, deltaP,
                   stage, nTracks>>

\* a library call of the pre-step throws; the exception leaves track
TrackPreThrow ==
    /\ pc = "pre"
    /\ \/ rev = "part_000"
          /\ PreFault_p0(Deref(templateImage, self), getBBOX(self))
       \/ rev = "ImageAlignment"
          /\ PreThrow_ia(Deref(templateImage, self), getBBOX(self))
    /\ pc' = "idle"
    /\ outcome' = "threw"
    /\ UNCHANGED <<sample, rev, self, call, entry, templateImage, i, warpMat, deltaP,
                   stage, jac, nTracks>>

\* assert(aImg.channels() == 1) fails in the builder: the process aborts
TrackPreAbort ==
    /\ pc = "pre"
    /\ rev = "ImageAlignment"
    /\ PreAbort_ia(Deref(templateImage, self), getBBOX(self))
    /\ pc' = "aborted"
    /\ outcome' = "aborted"
    /\ UNCHANGED <<sample, rev, self, call, entry, templateImage, i, warpMat, deltaP,
                   stage, jac, nTracks>>

\* a pass that also commits the warp to the BBOX, as a forward tracker that
\* moves its window in every pass would
TrackIter_commitsEachPass ==
    /\ pc = "loop"
    /\ ~IterFault(call.img)
    /\ \E d \in SolveOutcomes(Deref(templateImage, self), call.img, warpMat,
                              jac.rows, getBBOX(self).c) :
          /\ deltaP' = d
          /\ warpMat' = Compose(warpMat, d)
          /\ self' = WarpBBOX(self, Compose(warpMat, d))
          /\ pc' = IF Converged(d, call.tau) THEN "post"
                                             ELSE LoopHead(i + 1, call.K)
    /\ i' = i + 1
    /\ stage' = "test"
    /\ UNCHANGED <<sample, rev, call, entry, templateImage, jac, outcome, nTracks>>

\* part_000 lines 467-553, one pass of the loop body:
\* warp, residual, solve, compose, then the convergence test
TrackIter ==
    /\ pc = "loop"
    /\ ~IterFault(call.img)
    /\ \E d \in SolveOutcomes(Deref(templateImage, self), call.img, warpMat,
                              jac.rows, getBBOX(self).c) :
          /\ deltaP' = d
          /\ warpMat' = Compose(warpMat, d)
          /\ pc' = IF Converged(d, call.tau) THEN "post"
                                             ELSE LoopHead(i + 1, call.K)
    /\ i' = i + 1
    /\ stage' = "test"
    /\ UNCHANGED <<sample, rev, self, call, entry, templateImage, jac, outcome, nTracks>>

\* part_000 line 490 (empty frame) or line 506 (channel mismatch): the
\* library throws inside the first pass of the loop
TrackIterThrow ==
    /\ pc = "loop"
    /\ IterFault(call.img)
    /\ stage' = IF IsEmpty(call.img) THEN "warp" ELSE "residual"
    /\ pc' = "idle"
    /\ outcome' = "threw"
    /\ UNCHANGED <<sample, rev, self, call, entry, templateImage, i, warpMat, deltaP,
                   jac, nTracks>>

\* part_000 lines 555-567: the BBOX is replaced by its image under warpMat
TrackPost ==
    /\ pc = "post"
    /\ self' = WarpBBOX(self, warpMat)
    /\ stage' = "post"
    /\ pc' = "idle"
    /\ outcome' = "returned"
    /\ UNCHANGED <<sample, rev, call, entry, templateImage, i, warpMat, deltaP, jac,
                   nTracks>>

----------------------------------------------------------------------------

Next ==
    \/ \E aBbox \in BBoxInputs : SetBBOX(aBbox)
    \/ \E aBbox \in BBoxInputs : SetBBOX4(aBbox)
    \/ \E aImg \in Frames : SetTemplateImage(aImg)
    \/ \E aImg \in Frames : SetCurrentImage(aImg)
    \/ \E aNewImage \in Frames, aThreshold \in Thresholds, aMaxIters \in 0..MaxIters :
          TrackBegin(aNewImage, aThreshold, aMaxIters)
    \/ TrackPre
    \/ TrackPreDebug
    \/ TrackPreThrow
    \/ TrackPreAbort
    \/ TrackIter
    \/ TrackIterThrow
    \/ TrackPost

Spec == Init /\ [][Next]_vars

\* track is synchronous: once entered, the caller's thread runs each of its
\* steps to the end of the call
TrackStep ==
    TrackPre \/ TrackPreDebug \/ TrackPreThrow \/ TrackPreAbort
    \/ TrackIter \/ TrackIterThrow \/ TrackPost

FairSpec == Spec /\ WF_vars(TrackStep)

----------------------------------------------------------------------------
(* The bilinear sampler getSubPixelValue(aImg, ax, ay)                      *)
(*                                                                          *)
(* The function is the same text in both revisions.  A coordinate counts    *)
(* 1/SubPix pixel; a weight and the returned value count 1/SubPix^2.  An    *)
(* image is its element type, channel count and size; its pixels follow a   *)
(* fixed pattern in which horizontal and vertical neighbours differ.        *)

\* sub-pixel resolution of the sampler's coordinates
SubPix == 2
\* largest image side
MaxSide == 3
\* coordinates range over -MaxCoord .. MaxCoord pixels
MaxCoord == 4

ElemTypes == {"CV_8U", "CV_32F", "CV_64F"}

\* bytes that follow the image buffer in memory
JunkBytes == {0, 2}

SampleImages ==
    [type : ElemTypes, ch : {1}, cols : 1..MaxSide, rows : 1..MaxSide,
     junk : JunkBytes]
    \cup [type : {"CV_32F"}, ch : {3}, cols : {2}, rows : {2}, junk : {0}]
    \cup [type : {"CV_32F"}, ch : {1}, cols : {0}, rows : {0}, junk : {0}]

SampleCoords == (-MaxCoord * SubPix) .. (MaxCoord * SubPix)

\* the pixel I[y, x] of the image
Pixel(img, x, y) == (x + 2 * y) % 3

\* bytes of one element: elemSize()
ElemSize(type) ==
    CASE type = "CV_8U" -> 1 [] type = "CV_32F" -> 4 [] type = "CV_64F" -> 8

\* bytes read by the accessor the switch selects:
\* CV_8S, CV_8U -> at<int>; CV_64F -> at<double>; default -> at<float>
AtSize(type) ==
    CASE type = "CV_8U" -> 4 [] type = "CV_64F" -> 8 [] OTHER -> 4

\* static_cast<int>(ax): truncation toward zero
StaticCastInt(n) == IF n >= 0 THEN n \div SubPix ELSE -((-n) \div SubPix)

\* cv::borderInterpolate(p, len, cv::BORDER_REFLECT_101)
RECURSIVE borderInterpolate(_, _)
borderInterpolate(p, len) ==
    IF 0 <= p /\ p < len THEN p
    ELSE IF len = 1 THEN 0
    ELSE IF p < 0 THEN borderInterpolate(-p, len)
    ELSE borderInterpolate(2 * len - 2 - p, len)

\* size of the image buffer in bytes
BufferSize(img) == img.rows * img.cols * ElemSize(img.type)

\* aImg.at<T>(y, x): the bytes [lo, hi] it reads,
\* lo = y * step + x * sizeof(T), step = cols * elemSize
AtExtent(img, y, x) ==
    LET lo == y * img.cols * ElemSize(img.type) + x * AtSize(img.type)
    IN  [lo |-> lo, hi |-> lo + AtSize(img.type) - 1]

\* one byte of an 8-bit image's memory
ByteAt(img, o) ==
    IF o < BufferSize(img) THEN Pixel(img, o % img.cols, o \div img.cols)
    ELSE img.junk

\* the value aImg.at<T>(y, x) yields: the element itself when T is the
\* element type, otherwise the little-endian int made of the 4 bytes read
At(img, y, x) ==
    IF AtSize(img.type) = ElemSize(img.type) THEN Pixel(img, x, y)
    ELSE LET lo == AtExtent(img, y, x).lo
         IN  ByteAt(img, lo) + 256 * ByteAt(img, lo + 1)
             + 65536 * ByteAt(img, lo + 2) + 16777216 * ByteAt(img, lo + 3)

getSubPixelValue(img, ax, ay) ==
    LET intX == StaticCastInt(ax)
        intY == StaticCastInt(ay)
        x0 == borderInterpolate(intX, img.cols)
        x1 == borderInterpolate(intX + 1, img.cols)
        y0 == borderInterpolate(intY, img.rows)
        y1 == borderInterpolate(intY + 1, img.rows)
        dx == ax - intX * SubPix
        dy == ay - intY * SubPix
        dx1 == SubPix - dx
        dy1 == SubPix - dy
        tlWeight == dx1 * dy1
        trWeight == dx * dy1
        blWeight == dx1 * dy
        brWeight == dx * dy
    IN  [base |-> <<intX, intY>>,
         idx |-> <<x0, x1, y0, y1>>,
         frac |-> <<dx, dy>>,
         w |-> <<tlWeight, trWeight, blWeight, brWeight>>,
         reads |-> <<AtExtent(img, y0, x0), AtExtent(img, y0, x1),
                     AtExtent(img, y1, x0), AtExtent(img, y1, x1)>>,
         val |-> tlWeight * At(img, y0, x0) + trWeight * At(img, y0, x1)
                 + blWeight * At(img, y1, x0) + brWeight * At(img, y1, x1)]

NoResult ==
    [base |-> <<>>, idx |-> <<>>, frac |-> <<>>, w |-> <<>>, reads |-> <<>>,
     val |-> 0]

\* a caller is about to sample one image at one coordinate
SamplerInit ==
    /\ rev \in Revisions
    /\ self = Blank(NaNBox)
    /\ call = NoCall
    /\ pc = "idle"
    /\ entry = NoEntry
    /\ templateImage = NoLocal
    /\ i = 0
    /\ warpMat = FiniteMat(I3)
    /\ deltaP = FiniteDelta(ZeroDelta)
    /\ stage = "none"
    /\ jac = NoJac
    /\ outcome = "returned"
    /\ nTracks = 0
    /\ \E img \in SampleImages, ax \in SampleCoords, ay \in SampleCoords :
          sample = [pc |-> "call", img |-> img, ax |-> ax, ay |-> ay,
                    out |-> NoResult]

\* assert(!aImg.empty()); assert(aImg.channels() == 1); both hold
GetSubPixelValue ==
    /\ sample.pc = "call"
    /\ sample.img.cols > 0 /\ sample.img.rows > 0
    /\ sample.img.ch = 1
    /\ sample' = [sample EXCEPT
                    !.pc = "done",
                    !.out = getSubPixelValue(sample.img, sample.ax, sample.ay)]
    /\ UNCHANGED <<rev, self, pc, call, entry, templateImage, i, warpMat,
                   deltaP, stage, jac, outcome, nTracks>>

\* one of the two asserts fails: the process aborts
GetSubPixelValueAbort ==
    /\ sample.pc = "call"
    /\ \/ sample.img.cols = 0 \/ sample.img.rows = 0
       \/ sample.img.ch # 1
    /\ sample' = [sample EXCEPT !.pc = "aborted"]
    /\ UNCHANGED <<rev, self, pc, call, entry, templateImage, i, warpMat,
                   deltaP, stage, jac, outcome, nTracks>>

SamplerNext == GetSubPixelValue \/ GetSubPixelValueAbort

SamplerSpec == SamplerInit /\ [][SamplerNext]_vars

----------------------------------------------------------------------------
(* Vocabulary of the properties *)

\* finite, x0 < x1, y0 < y1, width and height above 2 pixels
ValidBox(b) ==
    /\ ~b.nan
    /\ Width(b.c) > 2 * Scale
    /\ Height(b.c) > 2 * Scale

ValidFrame(img) == ~IsEmpty(img) /\ Channels(img) = 1

\* the state in which track may be called: BBOX and previous frame present
Ready(e) == ValidBox(e.mBbox) /\ ValidFrame(e.cur)

TrackReturned == pc = "idle" /\ call.op = "track" /\ outcome = "returned"

\* the BBOX held at call entry, mapped through w
ImageOfEntryBox(w) == getBBOX(WarpBBOX([self EXCEPT !.mBbox = entry.mBbox], w))

----------------------------------------------------------------------------
(* C1 .. C10 *)

\* C1: after a track call returns, getTemplateImage() is the image that
\* getCurrentImage() returned at call entry and getCurrentImage() is the frame
\* just supplied.
C1_TrackShiftsFrames ==
    (TrackReturned /\ ~IsEmpty(entry.cur)) =>
        /\ getTemplateImage(self) = entry.cur
        /\ getCurrentImage(self) = call.img

\* C2: a track call made in the Ready state that returns has executed the
\* post-step: the stored BBOX is the image of the entry BBOX under the final
\* warp, and the tracker is Ready again.
C2_ReturnAfterPostStep ==
    (TrackReturned /\ Ready(entry)) =>
        /\ stage = "post"
        /\ getBBOX(self) = ImageOfEntryBox(warpMat)
        /\ ValidBox(getBBOX(self))
        /\ ValidFrame(getCurrentImage(self))

\* C3: the inner loop terminates for every threshold and every cap.  It runs
\* at most aMaxIters passes; it is left after the first pass whose update has
\* norm below the threshold; cap and convergence are its only exits; from
\* either exit the warp is committed to the BBOX and track returns normally.
\* (Calls whose new frame is a non-empty single-channel image, the frames the
\* loop is specified for.)
C3_LoopTerminates ==
    /\ [](i <= call.K)
    /\ [](pc = "loop" => i < call.K)
    /\ [](pc = "loop" /\ i > 0 => ~Converged(deltaP, call.tau))
    /\ [](pc = "post" => (i = call.K \/ (i > 0 /\ Converged(deltaP, call.tau))))
    /\ [][(pc = "loop" /\ i' = i + 1 /\ Converged(deltaP', call.tau))
             => pc' = "post"]_vars
    /\ [][pc = "post" =>
            /\ pc' = "idle" /\ outcome' = "returned"
            /\ getBBOX(self') = ImageOfEntryBox(warpMat)]_vars
    /\ (pc = "loop" /\ ValidFrame(call.img))
          ~> (TrackReturned /\ stage = "post")

\* the cap exit: the loop ran all of its aMaxIters = MaxIters passes without
\* converging and track returned
C3_Witness ==
    /\ TrackReturned
    /\ stage = "post"
    /\ call.K = MaxIters
    /\ i = call.K
    /\ ~Converged(deltaP, call.tau)
    /\ ~deltaP.nan /\ deltaP.p # ZeroDelta

\* C4: with threshold 0 the convergence test never succeeds, so a track call
\* made in the Ready state with a usable frame runs exactly aMaxIters passes
\* and returns with the BBOX updated from the warp of those passes.
C4_ZeroThresholdRunsAllPasses ==
    (TrackReturned /\ Ready(entry) /\ ValidFrame(call.img) /\ call.tau = 0) =>
        /\ i = call.K
        /\ stage = "post"
        /\ getBBOX(self) = ImageOfEntryBox(warpMat)

\* C5: when the stored BBOX is degenerate at call entry (finite, but width or
\* height at most 2 pixels, or inverted), track reports the
\* failure and leaves the BBOX, the template image and the current image as
\* they were at call entry.
C5_DegenerateRejected ==
    (call.op = "track" /\ ~entry.mBbox.nan /\ ~ValidBox(entry.mBbox)) =>
        /\ getBBOX(self) = entry.mBbox
        /\ getTemplateImage(self) = entry.tmpl
        /\ getCurrentImage(self) = entry.cur
        /\ (pc = "idle" => outcome = "threw")

\* C6: when track is called without a previous frame, or with an empty or
\* multi-channel new frame, the failure is reported before the first pass of
\* the loop begins: no warp, residual or solve step runs, and the call does
\* not return normally.  (Stated for calls that ask for at least one pass.)
C6_BadFrameReportedBeforeLoop ==
    (/\ call.op = "track"
     /\ call.K > 0
     /\ (IsEmpty(entry.cur) \/ ~ValidFrame(call.img))) =>
        /\ pc \notin {"loop", "post"}
        /\ stage = "none"
        /\ (pc = "idle" => outcome = "threw")

\* C7: setBBOX(b) followed by getBBOX() returns b, component by component
\* in the order given, for the array overload and for the four-scalar
\* overload; setting the b the object already holds changes nothing.
C7_SetGetBBOX ==
    /\ [](call.op \in {"setBBOX", "setBBOX4"} =>
            /\ ~getBBOX(self).nan
            /\ \A k \in 1..4 : getBBOX(self).c[k] = call.bbox[k])
    /\ [][(call'.op \in {"setBBOX", "setBBOX4"}
             /\ getBBOX(self) = FiniteBox(call'.bbox)) => self' = self]_vars

\* the four-scalar setter has replaced a BBOX that an earlier track produced
C7_Witness ==
    /\ call.op = "setBBOX4"
    /\ call.bbox = BoxA
    /\ getBBOX(self) = FiniteBox(BoxA)
    /\ nTracks > 0

\* C8: each setter replaces exactly one field: after setCurrentImage(I),
\* getCurrentImage() returns I while getTemplateImage() and getBBOX() return
\* what they returned before; likewise for setTemplateImage and setBBOX.
C8_SettersReplaceOneField ==
       [][/\ (call'.op = "setCurrentImage" =>
                 /\ getCurrentImage(self') = call'.img
                 /\ getTemplateImage(self') = getTemplateImage(self)
                 /\ getBBOX(self') = getBBOX(self))
           /\ (call'.op = "setTemplateImage" =>
                 /\ getTemplateImage(self') = call'.img
                 /\ getCurrentImage(self') = getCurrentImage(self)
                 /\ getBBOX(self') = getBBOX(self))
           /\ (call'.op \in {"setBBOX", "setBBOX4"} =>
                 /\ getTemplateImage(self') = getTemplateImage(self)
                 /\ getCurrentImage(self') = getCurrentImage(self))]_vars

\* squared distance between corner k (1: x0,y0; 2: x1,y1) of two BBOXes
CornerDistSq(a, b, k) ==
    (a[2*k - 1] - b[2*k - 1]) * (a[2*k - 1] - b[2*k - 1])
    + (a[2*k] - b[2*k]) * (a[2*k] - b[2*k])

\* C9: zero motion.  When the frame passed to track is the tracker's previous
\* frame and the BBOX is valid, each corner of the final BBOX is within
\* sqrt(2) * threshold of the entry BBOX (stated for thresholds above 0).
C9_ZeroMotionFixedPoint ==
    (/\ TrackReturned
     /\ ValidBox(entry.mBbox)
     /\ ValidFrame(call.img)
     /\ entry.cur = call.img
     /\ call.tau > 0) =>
        /\ ~getBBOX(self).nan
        /\ \A k \in 1..2 :
              CornerDistSq(getBBOX(self).c, entry.mBbox.c, k) * TauDen * TauDen
                < 2 * call.tau * call.tau * Scale * Scale

\* C10: once track has built the Jacobian for a valid entry BBOX, it has
\* N = floor(W) * floor(H) rows and the builder has written each of the rows
\* 0..N-1 exactly once.
C10_JacobianShape ==
    (/\ call.op = "track"
     /\ ValidBox(entry.mBbox)
     /\ (pc \in {"loop", "post"} \/ TrackReturned)) =>
        LET nX == Width(entry.mBbox.c) \div Scale
            nY == Height(entry.mBbox.c) \div Scale
        IN /\ jac.rows = nX * nY
           /\ \A k \in 0..(jac.rows - 1) :
                 Cardinality({t \in 1..Len(jac.written) : jac.written[t] = k}) = 1
           /\ \A t \in 1..Len(jac.written) : jac.written[t] \in 0..(jac.rows - 1)

----------------------------------------------------------------------------
(* The sampler's properties, over SamplerSpec *)

Sampled == sample.pc = "done"

IntegerCoord(a) == a % SubPix = 0

\* the element bytes of pixel (y, x)
ElementExtent(img, y, x) ==
    LET lo == (y * img.cols + x) * ElemSize(img.type)
    IN  [lo |-> lo, hi |-> lo + ElemSize(img.type) - 1]

\* C11: for a single-channel image of type 8-bit, 32-bit float or 64-bit
\* float and an integer coordinate (x, y) strictly inside the image, the
\* sampler returns I[y, x] exactly: the weights are (1, 0, 0, 0) and the
\* pixel is read with the element type the image has.
C11_IntegerSampleExact ==
    (/\ Sampled
     /\ IntegerCoord(sample.ax) /\ IntegerCoord(sample.ay)
     /\ 0 < sample.ax \div SubPix /\ sample.ax \div SubPix < sample.img.cols - 1
     /\ 0 < sample.ay \div SubPix /\ sample.ay \div SubPix < sample.img.rows - 1)
    => LET x == sample.ax \div SubPix
           y == sample.ay \div SubPix
       IN  /\ sample.out.w = <<SubPix * SubPix, 0, 0, 0>>
           /\ sample.out.reads[1] = ElementExtent(sample.img, y, x)
           /\ sample.out.val = SubPix * SubPix * Pixel(sample.img, x, y)

\* C12: sampler boundary symmetry.  For an integer k >= 1 and an image with
\* at least k+1 columns, the sample at x = -k equals the sample at x = k
\* (likewise for rows), and for every integer column c of the image the
\* sample at (c, 0) equals I[0, c], the last column included.
C12_BoundarySymmetry ==
    Sampled =>
        /\ (/\ IntegerCoord(sample.ax) /\ sample.ax < 0
             /\ (0 - sample.ax) \div SubPix <= sample.img.cols - 1)
            => sample.out.val =
                  getSubPixelValue(sample.img, 0 - sample.ax, sample.ay).val
        /\ (/\ IntegerCoord(sample.ay) /\ sample.ay < 0
             /\ (0 - sample.ay) \div SubPix <= sample.img.rows - 1)
            => sample.out.val =
                  getSubPixelValue(sample.img, sample.ax, 0 - sample.ay).val
        /\ (/\ IntegerCoord(sample.ax) /\ sample.ay = 0
             /\ 0 <= sample.ax /\ sample.ax \div SubPix < sample.img.cols)
            => sample.out.val =
                  SubPix * SubPix * Pixel(sample.img, sample.ax \div SubPix, 0)

\* C19: for every coordinate, negative ones included, the sampler's base
\* indices are floor(x) and floor(y), the fractional parts lie in [0, 1) and
\* the four weights are non-negative and sum to 1: the result is a convex
\* combination of the four pixels.
C19_FloorBaseConvexWeights ==
    Sampled =>
        /\ sample.out.base = <<sample.ax \div SubPix, sample.ay \div SubPix>>
        /\ \A k \in 1..2 : 0 <= sample.out.frac[k] /\ sample.out.frac[k] < SubPix
        /\ \A k \in 1..4 : sample.out.w[k] >= 0
        /\ sample.out.w[1] + sample.out.w[2] + sample.out.w[3] + sample.out.w[4]
              = SubPix * SubPix

\* C20: for every non-empty image and every coordinate, the four pixel
\* indices the sampler reads lie inside [0, cols) x [0, rows) (reflection
\* without repeating the edge sample), so no pixel read is out of bounds.
C20_ReadsInBounds ==
    Sampled =>
        /\ \A k \in 1..2 : 0 <= sample.out.idx[k] /\ sample.out.idx[k] < sample.img.cols
        /\ \A k \in 3..4 : 0 <= sample.out.idx[k] /\ sample.out.idx[k] < sample.img.rows
        /\ LET p == sample.out.base[1]
               n == sample.img.cols
           IN  /\ (-n < p /\ p < 0) => sample.out.idx[1] = 0 - p
               /\ (n <= p /\ p < 2 * n - 1) => sample.out.idx[1] = 2 * n - 2 - p
        /\ \A k \in 1..4 :
              /\ 0 <= sample.out.reads[k].lo
              /\ sample.out.reads[k].hi < BufferSize(sample.img)

----------------------------------------------------------------------------
(* C13 .. C18, over Spec *)

\* a track call is in progress or was the last call made
InTrack == call.op = "track"

\* the Hessian J^T J of the call in progress is not invertible
HessianSingular == Singular(Deref(templateImage, self), jac.rows)

\* the inverse of the incremental matrix M(deltaP) of the last iteration
LastDeltaInverse ==
    IF deltaP.nan THEN NaNMat ELSE Inverse3(WarpMatDelta(deltaP.p))

\* C13: at every point of a track call the warp estimate has last row
\* [0, 0, 1], and so have the incremental matrix of each iteration and its
\* inverse.
C13_WarpStaysAffine ==
    InTrack =>
        /\ ~warpMat.nan
        /\ warpMat.m[3] = <<0, 0, 1>>
        /\ i > 0 => /\ ~LastDeltaInverse.nan
                     /\ LastDeltaInverse.m[3] = <<0, 0, 1>>

\* C14: when the Hessian is not invertible, an iteration does not compose the
\* failed solve into the warp: it leaves the warp as it was and ends the loop
\* (or the call reports the failure); the warp committed to the BBOX is
\* always finite.
C14_SingularNotComposed ==
    /\ [][(pc = "loop" /\ HessianSingular)
            => (warpMat' = warpMat /\ pc' \in {"post", "idle"})]_vars
    /\ [](InTrack /\ stage = "post" => ~warpMat.nan /\ ~getBBOX(self).nan)

\* C15: a track call entered with a valid BBOX (finite, x0 < x1, y0 < y1,
\* width and height above 2 pixels) returns with a valid BBOX.
C15_BBoxStaysValid ==
    (TrackReturned /\ ValidBox(entry.mBbox)) => ValidBox(getBBOX(self))

\* frame "f1" shows the scene of frame "f0" moved by FrameShift pixels
FrameShift == <<-1, 0>>

Abs(x) == IF x < 0 THEN 0 - x ELSE x

\* corner k of box a lies within 0.5 + tau pixels of corner k of box b moved
\* by FrameShift
NearShifted(a, b, k, tau) ==
    LET ex == a[2 * k - 1] - (b[2 * k - 1] + FrameShift[1] * Scale)
        ey == a[2 * k] - (b[2 * k] + FrameShift[2] * Scale)
    IN  /\ Abs(ex) < 3 * Scale
        /\ Abs(ey) < 3 * Scale
        /\ (ex * ex + ey * ey) * 4 * TauDen * TauDen
              < (TauDen + 2 * tau) * (TauDen + 2 * tau) * Scale * Scale

\* C16: after one track call whose new frame is the previous frame
\* translated by a known integer (dx, dy) smaller than the BBOX, the BBOX
\* corners are within 0.5 + tau pixels of the entry corners translated by
\* (dx, dy).
C16_TranslationRecovered ==
    (/\ TrackReturned
     /\ ValidBox(entry.mBbox)
     /\ entry.cur = "f0" /\ call.img = "f1"
     /\ call.K > 0) =>
        /\ ~getBBOX(self).nan
        /\ \A k \in 1..2 :
              NearShifted(getBBOX(self).c, entry.mBbox.c, k, call.tau)

\* C17: inside track, the image the template patch and the Jacobian are
\* computed from is the tracker's current image at call entry, also after
\* the two image slots have been reassigned.
C17_TemplateIsPreviousFrame ==
    (/\ InTrack /\ pc \in {"pre", "loop", "post"}
     /\ ~IsEmpty(entry.cur) /\ ValidFrame(call.img)) =>
        Deref(templateImage, self) = entry.cur

\* C18: in every iteration the residual vector has N = nX * nY entries and
\* entry k = i * nX + j is the patch difference at grid point (i, j), the
\* point of row k of the Jacobian: both patches are nY x nX and are
\* flattened row by row.
C18_ResidualRowMajor ==
    (InTrack /\ i > 0 /\ ~entry.mBbox.nan) =>
        LET c  == entry.mBbox.c
            nX == Width(c) \div Scale
            nY == Height(c) \div Scale
        IN  /\ Len(ErrorVector(c)) = nX * nY
            /\ PatchSize(c) = [cols |-> nX, rows |-> nY]
            /\ \A t \in 1..Len(ErrorVector(c)) :
                  /\ ErrorVector(c)[t].init
                  /\ ErrorVector(c)[t].i = (t - 1) \div nX
                  /\ ErrorVector(c)[t].j = (t - 1) % nX

----------------------------------------------------------------------------
(* The rows of the Jacobian *)

\* computeJacobian has run in the current track call
JacobianBuilt == InTrack /\ jac /= NoJac

\* the rows the builder has stored, in the order it stored them
Jacobian ==
    IF jac = NoJac THEN <<>>
    ELSE IF rev = "part_000" THEN RowValues_p0(jac.img, jac.c)
                             ELSE RowValues_ia(jac.img, jac.c)

\* the points the builder has visited, in the order of its loops
JacobianPoints ==
    IF jac = NoJac THEN <<>>
    ELSE IF rev = "part_000" THEN GridPoints_p0(jac.c) ELSE GridPoints_ia(jac.c)

\* the template patch cut before the loop
templateSubImage ==
    IF jac = NoJac THEN NoPatch ELSE TemplatePatch(jac.img, jac.c)

\* the grid point (x0 + j*dx, y0 + i*dy) with dx = W/(nX-1), dy = H/(nY-1)
InclusivePoint(c, i0, j0) ==
    LET nX == TruncPx(Width(c))
        nY == TruncPx(Height(c))
    IN  [xn |-> c[1] * (nX - 1) + j0 * Width(c),  xd |-> nX - 1,
         yn |-> c[2] * (nY - 1) + i0 * Height(c), yd |-> nY - 1]

\* [gx*x, gy*x, gx*y, gy*y, gx, gy] at a point, in units of 1/(xd*yd)
SixValues(img, pt) ==
    LET gx == templateGradX(img, pt)
        gy == templateGradY(img, pt)
        x  == pt.xn * pt.yd
        y  == pt.yn * pt.xd
        one == pt.xd * pt.yd
    IN  <<gx * x, gy * x, gx * y, gy * y, gx * one, gy * one>>

\* C21: once the Jacobian builder has run, every grid index (i, j) has its
\* row k = i*nX + j written, and the row holds [gx*x, gy*x, gx*y, gy*y, gx, gy]
\* with (x, y) = (x0 + j*dx, y0 + i*dy) and gx, gy the template gradients
\* sampled at (x, y); no row of the matrix is left unwritten.
C21_JacobianRowContents ==
    JacobianBuilt =>
        LET c   == entry.mBbox.c
            img == Deref(templateImage, self)
            nX  == TruncPx(Width(c))
            nY  == TruncPx(Height(c))
        IN  /\ \A i0 \in 0..(nY - 1) : \A j0 \in 0..(nX - 1) :
                  \E t \in 1..Len(jac.written) :
                     /\ jac.written[t] = i0 * nX + j0
                     /\ t <= Len(Jacobian)
                     /\ Jacobian[t].den /= 0
                     /\ Jacobian[t].den = InclusivePoint(c, i0, j0).xd
                                            * InclusivePoint(c, i0, j0).yd
                     /\ Jacobian[t].v = SixValues(img, InclusivePoint(c, i0, j0))
            /\ \A k \in 0..(jac.rows - 1) :
                  \E t \in 1..Len(jac.written) : jac.written[t] = k

----------------------------------------------------------------------------
(* The sample grid *)

\* getSubPixelRect(aImg, aSubImg, aBBOX), part_000 lines 726-740: the patch is
\* created nY x nX and entry (i, j) is sampled at
\*     x = aBBOX[0] + deltaX * j,  deltaX = bboxWidth / (nX - 1)
\*     y = aBBOX[1] + deltaY * i,  deltaY = bboxHeight / (nY - 1)
getSubPixelRect(c) ==
    LET nX == TruncPx(Width(c))
        nY == TruncPx(Height(c))
        n  == IF nX > 0 /\ nY > 0 THEN nX * nY ELSE 0
    IN  [cols |-> nX, rows |-> nY,
         pts  |-> [t \in 1..n |->
                     [xn |-> c[1] * (nX - 1) + ((t - 1) % nX) * Width(c),
                      xd |-> nX - 1,
                      yn |-> c[2] * (nY - 1) + ((t - 1) \div nX) * Height(c),
                      yd |-> nY - 1]]]

\* a point of an enumeration is the point (x0 + j*W/(nX-1), y0 + i*H/(nY-1))
OnInclusiveGrid(pt, c, i0, j0) ==
    LET nX == TruncPx(Width(c))
        nY == TruncPx(Height(c))
    IN  /\ pt.xd /= 0 /\ pt.yd /= 0
        /\ pt.xn * (nX - 1) = (c[1] * (nX - 1) + j0 * Width(c)) * pt.xd
        /\ pt.yn * (nY - 1) = (c[2] * (nY - 1) + i0 * Height(c)) * pt.yd

\* an enumeration of nX*nY points, row by row, whose first column is x0, last
\* column x1, first row y0, last row y1, every point on the inclusive grid
InclusiveGrid(pts, c) ==
    LET nX == TruncPx(Width(c))
        nY == TruncPx(Height(c))
    IN  /\ Len(pts) = nX * nY
        /\ \A t \in 1..Len(pts) :
              LET i0 == (t - 1) \div nX
                  j0 == (t - 1) % nX
              IN  /\ OnInclusiveGrid(pts[t], c, i0, j0)
                  /\ j0 = 0      => pts[t].xn = c[1] * pts[t].xd
                  /\ j0 = nX - 1 => pts[t].xn = c[3] * pts[t].xd
                  /\ i0 = 0      => pts[t].yn = c[2] * pts[t].yd
                  /\ i0 = nY - 1 => pts[t].yn = c[4] * pts[t].yd

\* C22: the sample grid includes both BBOX edges: nX = floor(W) columns with
\* step W/(nX-1), the first at x0 and the last at x1, likewise for the rows;
\* the Jacobian builder and the rectangle sampler both enumerate this grid,
\* and neither steps by W/nX.
C22_GridInclusiveOfEdges ==
    (JacobianBuilt /\ TruncPx(Width(entry.mBbox.c)) >= 2
                   /\ TruncPx(Height(entry.mBbox.c)) >= 2) =>
        /\ InclusiveGrid(JacobianPoints, entry.mBbox.c)
        /\ InclusiveGrid(getSubPixelRect(entry.mBbox.c).pts, entry.mBbox.c)
        /\ getSubPixelRect(entry.mBbox.c).cols = TruncPx(Width(entry.mBbox.c))
        /\ getSubPixelRect(entry.mBbox.c).rows = TruncPx(Height(entry.mBbox.c))

----------------------------------------------------------------------------
(* The inverse-compositional update *)

\* a step that completes one pass of the loop (solve, compose, test)
PassCompletes == pc = "loop" /\ i' = i + 1

\* [[1+p1, p3, p5], [p2, 1+p4, p6], [0, 0, 1]]
UpdateMatrix(p) ==
    << <<1 + p[1], p[3], p[5]>>, <<p[2], 1 + p[4], p[6]>>, <<0, 0, 1>> >>

\* C23: the warp is the identity when the loop is entered; every pass replaces
\* the warp W by W * inverse(M) with M = [[1+p1,p3,p5],[p2,1+p4,p6],[0,0,1]]
\* (so the new warp times M is the old warp); the composition comes before
\* the convergence test, so the pass that converges goes to the post-step
\* with its update composed, and the post-step commits that warp.
C23_ComposeBeforeTest ==
    /\ []((pc = "loop" /\ i = 0) => warpMat = FiniteMat(I3))
    /\ [][PassCompletes =>
            LET M == UpdateMatrix(deltaP'.p)
                defined == ~warpMat.nan /\ ~deltaP'.nan /\ Det3(M) /= 0
            IN  /\ defined => /\ ~warpMat'.nan
                              /\ MatMul(warpMat'.m, M) = warpMat.m
                /\ ~defined => warpMat'.nan
                /\ Converged(deltaP', call.tau) => pc' = "post"]_vars
    /\ [][pc = "post" =>
            /\ warpMat' = warpMat
            /\ getBBOX(self') = ImageOfEntryBox(warpMat)]_vars

\* a call returned after one pass that converged with a translation update:
\* the committed warp is inverse(M) and the BBOX has moved with it
C23_Witness ==
    /\ TrackReturned /\ stage = "post" /\ i = 1
    /\ Converged(deltaP, call.tau)
    /\ deltaP.p = <<0, 0, 0, 0, 1, 0>>
    /\ warpMat = FiniteMat(<< <<1, 0, -1>>, <<0, 1, 0>>, <<0, 0, 1>> >>)
    /\ getBBOX(self) = FiniteBox(<<entry.mBbox.c[1] - Scale, entry.mBbox.c[2],
                                   entry.mBbox.c[3] - Scale, entry.mBbox.c[4]>>)

----------------------------------------------------------------------------
(* The post-step *)

\* the call returned through its post-step
PostStepRan == TrackReturned /\ stage = "post"

\* row r of w applied to the homogeneous point (x, y, 1)
MapPoint(w, r, x, y) == w[r][1] * x + w[r][2] * y + w[r][3] * Scale

\* C24: a call that returned through the post-step holds as BBOX the two
\* corners (x0, y0), (x1, y1) of the entry BBOX mapped through the final warp,
\* stored as (x0', y0', x1', y1'); a call that returned with the identity warp
\* (in particular every call with K = 0) holds the entry BBOX unchanged.
C24_PostStepMapsCorners ==
    /\ (PostStepRan /\ ~warpMat.nan /\ ~entry.mBbox.nan) =>
           LET c == entry.mBbox.c
               w == warpMat.m
           IN  getBBOX(self) = FiniteBox(<<MapPoint(w, 1, c[1], c[2]),
                                          MapPoint(w, 2, c[1], c[2]),
                                          MapPoint(w, 1, c[3], c[4]),
                                          MapPoint(w, 2, c[3], c[4])>>)
    /\ (TrackReturned /\ warpMat = FiniteMat(I3)) => getBBOX(self) = entry.mBbox
    /\ (TrackReturned /\ call.K = 0) =>
           /\ warpMat = FiniteMat(I3)
           /\ getBBOX(self) = entry.mBbox

\* a call returned through the post-step with a warp that shears and
\* translates: both coordinates of a corner enter its image
C24_Witness ==
    /\ PostStepRan
    /\ ~warpMat.nan /\ ~entry.mBbox.nan
    /\ warpMat.m[1][2] /= 0
    /\ warpMat.m[2][3] /= 0
    /\ getBBOX(self) /= entry.mBbox

----------------------------------------------------------------------------
(* What the loop leaves alone *)

\* C25: within one track call the Jacobian (with its transpose), the template
\* patch and the stored BBOX are in place before the loop and no pass of the
\* loop changes them; the template patch and so every pass's sampling window
\* is the entry BBOX; the stored BBOX changes in no step of the call but the
\* post-step, which ends the call.
C25_LoopLeavesPrecomputed ==
    /\ [](pc = "loop" =>
            /\ jac /= NoJac
            /\ templateSubImage
                 = TemplatePatch(Deref(templateImage, self), entry.mBbox.c)
            /\ getBBOX(self) = entry.mBbox)
    /\ [][pc = "loop" =>
            /\ jac' = jac /\ rev' = rev
            /\ getBBOX(self') = getBBOX(self)
            /\ Deref(templateImage', self') = Deref(templateImage, self)]_vars
    /\ [][(outcome = "running" /\ getBBOX(self') /= getBBOX(self)) =>
            /\ pc = "post"
            /\ outcome' = "returned"]_vars

\* the second pass of a call is about to start: the first pass has changed
\* the warp, and the Jacobian, the template patch and the BBOX are those of
\* the entry to the loop
C25_Witness ==
    /\ pc = "loop" /\ i = 1
    /\ warpMat /= FiniteMat(I3)
    /\ jac.rows > 0 /\ Len(Jacobian) = jac.rows
    /\ templateSubImage.c = entry.mBbox.c
    /\ getBBOX(self) = entry.mBbox
====
